---------------------------- MODULE Spec2Model ----------------------------
(***************************************************************************)
(* A model of the denver-crime-analysis command line workflow: run.py and  *)
(* the stage functions collect_data, process_data (data.py) and plot_data  *)
(* (plotting.py), together with the file system, the user at the prompt    *)
(* and the network they act on.                                            *)
(*                                                                         *)
(* The program is entered either through run.py (entry = "run") or by a    *)
(* direct call of one stage function with arguments of the caller's        *)
(* choice (entry = the function's name).  Python runs with assertions      *)
(* enabled (no -O).                                                        *)
(***************************************************************************)
EXTENDS Integers, Sequences, FiniteSets, TLC

\* ------------------------------------------------------------- bounds

\* longest --actions list given on the command line
MaxActions == 3
\* most dots in an input file name handed to process_data
MaxDots == 2
\* most invalid answers the user types at one prompt
MaxInvalid == 1

\* ------------------------------------------------------- file names

\* A file name is a sequence of atoms: "." or a dot-free piece of text.
NameAtoms == {"crime", "csv"}

RECURSIVE DottedNames(_)
DottedNames(d) ==
    IF d = 0 THEN {<<a>> : a \in NameAtoms}
    ELSE LET shorter == DottedNames(d - 1)
         IN  shorter \cup {n \o <<".", a>> : n \in {m \in shorter : Len(m) = 2 * d - 1},
                                               a \in NameAtoms}

\* the names process_data is tried with
FNames == DottedNames(MaxDots)

crime_csv == <<"crime", ".", "csv">>
crime_processed_csv == <<"crime", "_processed", ".", "csv">>

\* Python's str.split('.'): the pieces between the dots
RECURSIVE Split(_)
Split(s) ==
    IF \A i \in 1..Len(s) : s[i] # "." THEN <<s>>
    ELSE LET k == CHOOSE i \in 1..Len(s) :
                      s[i] = "." /\ \A j \in 1..(i - 1) : s[j] # "."
         IN  <<SubSeq(s, 1, k - 1)>> \o Split(SubSeq(s, k + 1, Len(s)))

\* data.py:186  file_name = fname.split('.')[0]
FileNameOf(fname) == Split(fname)[1]

\* data.py:192 and 196  f"{file_name}_processed.<ext>"
ProcessedName(fname, ext) == FileNameOf(fname) \o <<"_processed", ".", ext>>

\* ----------------------------------------------------- directories

\* settings.py:15  the directory collect_data downloads to
DATA_DIR == "data"
\* The directory plot_data draws to.  plotting.py:34 imports it from settings,
\* and settings.py as it stands does not define it: it is taken to be a
\* directory of its own beside DATA_DIR.
PLOTS_DIR == "plots"

NoFiles == [n \in {} |-> 0]
NoDir == [exists |-> FALSE, files |-> NoFiles]
EmptyDir == [exists |-> TRUE, files |-> NoFiles]
DirWith(f) == [exists |-> TRUE, files |-> f]

\* a file written into a directory (created or overwritten)
WriteFile(dir, name, content) ==
    [dir EXCEPT !.files =
        [n \in (DOMAIN dir.files) \cup {name} |->
            IF n = name THEN content ELSE dir.files[n]]]

HasFile(dir, name) == dir.exists /\ name \in DOMAIN dir.files

\* ------------------------------------------------------ file contents

\* column names: a base name in some letter case
Col(base, case) == <<base, case>>
LowerCol(c) == Col(c[1], "lower")
UpperCol(c) == Col(c[1], "upper")
reported_date == Col("reported_date", "lower")
offense == Col("offense", "lower")
Offense == Col("offense", "mixed")

\* the header of the published dataset and of another csv file
DatasetCols == {reported_date, offense}
OtherCols == {Offense}

\* A file's content.  kind: csv (a table pandas can read), parquet, bad (not
\* readable as csv), errorpage (the body of an HTTP error answer), partial (a
\* download cut short), png.  gen: the download it stems from (0: it was there
\* before the program started).  nan: the columns holding empty values.
Content(kind, cols, nan, gen, processed) ==
    [kind |-> kind, cols |-> cols, nan |-> nan, gen |-> gen, processed |-> processed]

Dataset(gen) == Content("csv", DatasetCols, {offense}, gen, FALSE)
OtherCsv == Content("csv", OtherCols, {}, 0, FALSE)
BadFile == Content("bad", {}, {}, 0, FALSE)
ErrorPage(gen) == Content("errorpage", {}, {}, gen, FALSE)
Partial(gen) == Content("partial", {}, {}, gen, FALSE)
Png == Content("png", {}, {}, 0, FALSE)
OldProcessed == Content("csv", DatasetCols, {}, 0, TRUE)

\* what a file found before the program starts may hold
OldContents == {Dataset(0), OtherCsv, BadFile}

NoFrame == Content("none", {}, {}, 0, FALSE)


\* --------------------------------------------------------- arguments

\* run.py:40  choices of --actions
Choices == {"collect", "process", "plot", "all"}

RECURSIVE ListsOver(_, _)
ListsOver(S, n) ==
    IF n = 0 THEN {<<>>}
    ELSE LET shorter == ListsOver(S, n - 1)
         IN  shorter \cup {Append(l, x) : l \in {m \in shorter : Len(m) = n - 1}, x \in S}

\* run.py:37-45  what the parser accepts: nargs='+', every entry one of choices
ParserAccepts == ListsOver(Choices, MaxActions) \ {<<>>}

\* drop_columns: None, or a list of column names
NoneDrop == [none |-> TRUE, cols |-> <<>>]
DropList(l) == [none |-> FALSE, cols |-> l]
DropChoices ==
    {NoneDrop, DropList(<<>>), DropList(<<offense>>), DropList(<<Col("nosuch", "lower")>>)}

Args(d, h, n, o, f) ==
    [drop_columns |-> d, handle_na |-> h, normalization |-> n,
     outfile_format |-> o, fname |-> f]

\* data.py:85  the defaults of process_data, which run.py:77 calls it with
DefaultArgs == Args(NoneDrop, "None", "None", "csv", crime_csv)

ArgChoices ==
    {Args(d, h, n, o, f) : d \in DropChoices,
                           h \in {"None", "drop_row", "drop_column"},
                           n \in {"None", "lower", "upper"},
                           o \in {"csv", "parquet", "json"},
                           f \in FNames}

\* plot_data's keyword arguments: a dict from plot names to booleans
PlotNames == {"crimes_by_year", "crimes_by_month", "crimes_by_season"}
NoKwargs == [n \in {} |-> TRUE]
KwargChoices == UNION {[K -> BOOLEAN] : K \in SUBSET PlotNames}

\* the five report variants of the report
ReportVariants ==
    {"crimes_by_year", "crimes_by_month", "crimes_by_type", "crimes_by_season",
     "crimes_by_neighborhood"}

\* the directories found when the program starts
InitDataDirs(fn) ==
    {NoDir, EmptyDir}
        \cup {DirWith(fn :> c) : c \in OldContents}
        \cup {DirWith(fn :> Dataset(0) @@ crime_processed_csv :> OldProcessed)}

InitPlotsDirs == {NoDir, EmptyDir, DirWith(<<"old", ".", "png">> :> Png)}

\* ------------------------------------------------------------- state

VARIABLES
    entry,      \* "run", or the stage function called directly
    argv,       \* run.py: the --actions list as parsed
    params,     \* the arguments process_data is called with
    kwargs,     \* the keyword arguments plot_data is called with
    actions,    \* run.py:49  the list the loop pops from
    pc,         \* where run.py (or the direct caller) stands
    status,     \* "running", "ok", or the exception that ended the program
    stage,      \* the stage function executing, or "none"
    spc,        \* where the stage function stands
    ret,        \* the value the last stage function returned
    dataDir,    \* DATA_DIR on disk
    plotsDir,   \* PLOTS_DIR on disk
    frame,      \* the dataframe the stage holds
    calls,      \* history: the stage functions entered, in order
    outs,       \* history: how each call ended
    printed,    \* history: what was printed
    asked,      \* the current stage prompted the user
    answer,     \* what the user answered: "none", "accept", "reject"
    invalid,    \* invalid answers typed at the current prompt
    before,     \* history: the stage's target directory when it was entered
    downloads,  \* downloads started so far
    variant,    \* the chart function called on its own, or "none"
    order,      \* its ordering argument
    records,    \* the records of the dataframe it is given
    cpc,        \* where the chart function stands
    ordered,    \* the ordered category list it built
    for_plot,   \* the series it built, by year
    cresult     \* how it ended, "none" while it has not

chart == <<variant, order, records, cpc, ordered, for_plot, cresult>>
\* what no step of run.py and of the stage functions changes
static == <<entry, argv, params, kwargs, chart>>
ctl == <<pc, status, stage, spc, ret, outs>>
disk == <<dataDir, plotsDir>>
user == <<asked, answer, invalid>>
vars == <<entry, argv, params, kwargs, actions, pc, status, stage, spc, ret,
          dataDir, plotsDir, frame, calls, outs, printed, asked, answer,
          invalid, before, downloads, variant, order, records, cpc, ordered,
          for_plot, cresult>>

Init ==
    /\ entry \in {"run", "collect_data", "process_data", "plot_data"}
    /\ argv \in (IF entry = "run" THEN ParserAccepts ELSE {<<>>})
    /\ params \in (IF entry = "process_data" THEN ArgChoices ELSE {DefaultArgs})
    /\ kwargs \in (IF entry = "plot_data" THEN KwargChoices ELSE {NoKwargs})
    /\ dataDir \in InitDataDirs(params.fname)
    /\ plotsDir \in (IF entry \in {"run", "plot_data"} THEN InitPlotsDirs ELSE {NoDir})
    /\ actions = argv
    /\ pc = IF entry = "run" THEN "validate" ELSE "call"
    /\ status = "running"
    /\ stage = "none"
    /\ spc = "none"
    /\ ret = "none"
    /\ frame = NoFrame
    /\ calls = <<>>
    /\ outs = <<>>
    /\ printed = <<>>
    /\ asked = FALSE
    /\ answer = "none"
    /\ invalid = 0
    /\ before = NoDir
    /\ downloads = 0
    /\ variant = "none"
    /\ order = "none"
    /\ records = <<>>
    /\ cpc = "idle"
    /\ ordered = <<>>
    /\ for_plot = <<>>
    /\ cresult = "none"

\* ------------------------------------------------- control helpers

Output(m) == printed' = Append(printed, m)

\* the stage moves on to its step s
Goto(s) ==
    /\ spc' = s
    /\ UNCHANGED <<pc, status, stage, ret, outs>>

\* the stage returns v to its caller
Return(v) ==
    /\ spc' = "returned"
    /\ ret' = v
    /\ outs' = [outs EXCEPT ![Len(outs)] = v]
    /\ UNCHANGED <<pc, status, stage>>

\* an exception nobody catches (run.py has no try), sys.exit included: the
\* program ends with it
Terminate(e) ==
    /\ pc' = "done"
    /\ status' = e
    /\ stage' = "none"
    /\ spc' = "none"
    /\ UNCHANGED ret

Raise(e) ==
    /\ Terminate(e)
    /\ outs' = [outs EXCEPT ![Len(outs)] = e]

\* a stage function is entered
Enter(fn, first, dir) ==
    /\ stage' = fn
    /\ spc' = first
    /\ calls' = Append(calls, fn)
    /\ outs' = Append(outs, "running")
    /\ before' = dir
    /\ asked' = FALSE
    /\ answer' = "none"
    /\ invalid' = 0
    /\ frame' = NoFrame
    /\ UNCHANGED <<status, ret>>

FirstStep(fn) ==
    CASE fn = "collect_data" -> "mkdir"
      [] fn = "process_data" -> "read"
      [] fn = "plot_data" -> "mkdir"

\* the directory a stage makes or empties on entry: its name and its state
TargetName(fn) == IF fn = "plot_data" THEN PLOTS_DIR ELSE DATA_DIR
TargetDir(fn) == IF TargetName(fn) = PLOTS_DIR THEN plotsDir ELSE dataDir

\* ------------------------------------------------------------ run.py

\* run.py:17-24  the stage functions run.py imports; plot_data is not one
RunPyGlobals == {"collect_data", "process_data"}

\* a faulty variant of ValidateActions: the test for `all` among two entries is lost
ValidateActionsNoAllTest(a) ==
    IF Len(a) > 2 THEN "ActionArgumentsException" ELSE "pass"

\* run.py:57-64  the validation of the actions list
ValidateActions(a) ==
    IF Len(a) > 2 THEN "ActionArgumentsException"
    ELSE IF Len(a) = 2 /\ \E i \in 1..Len(a) : a[i] = "all"
         THEN "ActionArgumentsException"
         ELSE "pass"

\* run.py:69  list.pop(): the last entry
Pop(l) == [item |-> l[Len(l)], rest |-> SubSeq(l, 1, Len(l) - 1)]

\* run.py:71, 76, 81  the stage function an action names
StageOf(a) ==
    CASE a = "collect" -> "collect_data"
      [] a = "process" -> "process_data"
      [] a = "plot" -> "plot_data"
      [] OTHER -> "none"

\* a faulty variant of ExitMessage: the flag of process_data is not looked at
ExitMessageCollectOnly(fn) ==
    CASE fn = "collect_data" -> "SystemExit: There was an error collecting the data"
      [] OTHER -> "none"

\* run.py:73-74, 78-79, 82  what run.py exits with when the stage's flag is
\* False; "none": the flag is not looked at
ExitMessage(fn) ==
    CASE fn = "collect_data" -> "SystemExit: There was an error collecting the data"
      [] fn = "process_data" -> "SystemExit: There was an error processing the data"
      [] OTHER -> "none"

RunValidate ==
    /\ entry = "run"
    /\ pc = "validate"
    /\ IF ValidateActions(actions) = "pass"
       THEN /\ pc' = "loop"
            /\ UNCHANGED status
       ELSE /\ pc' = "done"
            /\ status' = ValidateActions(actions)
    /\ UNCHANGED <<static, actions, stage, spc, ret, outs, disk, frame, calls,
                   printed, user, before, downloads>>

\* run.py:68-89  one turn of the loop up to the stage function's call
RunLoop ==
    /\ entry = "run"
    /\ pc = "loop"
    /\ IF actions = <<>>
       THEN /\ pc' = "done"
            /\ status' = "ok"
            /\ UNCHANGED <<actions, stage, spc, ret, outs, frame, calls, user, before>>
       ELSE LET fn == StageOf(Pop(actions).item)
            IN  /\ actions' = Pop(actions).rest
                /\ IF fn = "none"
                   THEN UNCHANGED <<pc, status, stage, spc, ret, outs, frame, calls,
                                    user, before>>
                   ELSE IF fn \in RunPyGlobals
                   THEN /\ Enter(fn, FirstStep(fn), TargetDir(fn))
                        /\ pc' = "wait"
                   ELSE /\ Terminate("NameError")
                        /\ UNCHANGED <<outs, frame, calls, user, before>>
    /\ UNCHANGED <<static, disk, printed, downloads>>

\* run.py:72-74, 77-79, 82  the stage function has returned its flag
RunAfterStage ==
    /\ entry = "run"
    /\ pc = "wait"
    /\ spc = "returned"
    /\ IF ret = "False" /\ ExitMessage(stage) # "none"
       THEN Terminate(ExitMessage(stage))
       ELSE /\ pc' = "loop"
            /\ stage' = "none"
            /\ spc' = "none"
            /\ UNCHANGED <<status, ret>>
    /\ UNCHANGED <<static, actions, outs, disk, frame, calls, printed, user,
                   before, downloads>>

\* a stage function called directly, and its return to the caller
DirectCall ==
    /\ entry # "run"
    /\ pc = "call"
    /\ Enter(entry, FirstStep(entry), TargetDir(entry))
    /\ pc' = "wait"
    /\ UNCHANGED <<static, actions, disk, printed, downloads>>

DirectReturn ==
    /\ entry # "run"
    /\ pc = "wait"
    /\ spc = "returned"
    /\ pc' = "done"
    /\ status' = "ok"
    /\ UNCHANGED <<static, actions, stage, spc, ret, outs, disk, frame, calls,
                   printed, user, before, downloads>>

\* ---------------------------------------------------------- utils.py

AcceptStrings == {"Y", "y"}
RejectStrings == {"N", "n"}
\* what the user may type: the strings above and one that is neither
UserInputs == AcceptStrings \cup RejectStrings \cup {"q"}

\* utils.py:43-57  one turn of validate's loop: "True", "False" or "again"
validate(user_input) ==
    IF user_input \in AcceptStrings THEN "True"
    ELSE IF user_input \in RejectStrings THEN "False"
    ELSE "again"

\* ------------------------------------------- data.py: collect_data

\* a faulty variant of MakeDir: an existing directory is emptied without asking
MakeDirNoPrompt(dir) == [dir |-> EmptyDir, next |-> "go"]

\* data.py:38-42, plotting.py:80-84  os.mkdir: the directory is created, or
\* (it exists) an exception leads to the prompt
MakeDir(dir) ==
    IF dir.exists THEN [dir |-> dir, next |-> "prompt"]
    ELSE [dir |-> EmptyDir, next |-> "go"]

\* data.py:54-55, plotting.py:96-97  shutil.rmtree, then os.mkdir
RemakeDir(dir) == EmptyDir

\* how the download may go: all well, the server answers with an error
\* status, the request fails, the stream breaks, the file cannot be opened
NetOutcomes == {"ok", "http_error", "conn_error", "stream_error", "open_error"}

\* data.py:66-83  the download: what is written to crime.csv and how
\* collect_data ends
Download(net, gen) ==
    CASE net = "conn_error" ->
            [written |-> FALSE, content |-> NoFrame, result |-> "ConnectionError"]
      [] net = "ok" ->
            [written |-> TRUE, content |-> Dataset(gen), result |-> "True"]
      [] net = "http_error" ->
            [written |-> TRUE, content |-> ErrorPage(gen), result |-> "True"]
      [] net = "stream_error" ->
            [written |-> TRUE, content |-> Partial(gen), result |-> "False"]
      [] net = "open_error" ->
            [written |-> FALSE, content |-> NoFrame, result |-> "False"]

CollectMkdir ==
    /\ stage = "collect_data"
    /\ spc = "mkdir"
    /\ dataDir' = MakeDir(dataDir).dir
    /\ IF MakeDir(dataDir).next = "prompt"
       THEN /\ Goto("prompt")
            /\ asked' = TRUE
       ELSE /\ Goto("download")
            /\ UNCHANGED asked
    /\ UNCHANGED <<static, actions, plotsDir, frame, calls, printed, answer,
                   invalid, before, downloads>>

\* data.py:44-59  the prompt and what follows the answer
CollectPrompt(user_input) ==
    /\ stage = "collect_data"
    /\ spc = "prompt"
    /\ CASE validate(user_input) = "True" ->
              /\ answer' = "accept"
              /\ dataDir' = RemakeDir(dataDir)
              /\ Goto("download")
              /\ UNCHANGED <<invalid, printed>>
         [] validate(user_input) = "False" ->
              /\ answer' = "reject"
              /\ Raise("SystemExit: User exit")
              /\ UNCHANGED <<dataDir, invalid, printed>>
         [] OTHER ->
              /\ invalid < MaxInvalid
              /\ invalid' = invalid + 1
              /\ Output("Your input is not valid")
              /\ UNCHANGED <<ctl, dataDir, answer>>
    /\ UNCHANGED <<static, actions, plotsDir, frame, calls, asked, before, downloads>>

CollectDownload(net) ==
    /\ stage = "collect_data"
    /\ spc = "download"
    /\ downloads' = downloads + 1
    /\ LET d == Download(net, downloads + 1)
       IN  /\ dataDir' = IF d.written THEN WriteFile(dataDir, crime_csv, d.content)
                         ELSE dataDir
           /\ IF d.result \in {"True", "False"} THEN Return(d.result) ELSE Raise(d.result)
    /\ UNCHANGED <<static, actions, plotsDir, frame, calls, printed, user, before>>

\* ------------------------------------------- data.py: process_data

\* data.py:112  pd.read_csv: the frames reading the file may give; NoFrame:
\* it raises.  What pandas makes of an error page or of a file cut short is
\* either.
ReadCsv(content) ==
    CASE content.kind = "csv" -> {content}
      [] content.kind = "errorpage" ->
            {NoFrame, Content("csv", {Col("html", "mixed")}, {}, content.gen, FALSE)}
      [] content.kind = "partial" ->
            {NoFrame, Content("csv", DatasetCols, DatasetCols, content.gen, FALSE)}
      [] OTHER -> {NoFrame}

Range(l) == {l[i] : i \in 1..Len(l)}

\* data.py:122-124  the assertion: `frame.solumns` is no attribute of a
\* dataframe, so evaluating the right operand of `or` raises
AssertDropColumns(f, drop) ==
    IF drop.none THEN "pass" ELSE "AttributeError"

\* data.py:128  frame.drop(columns=...): NoFrame when it raises (KeyError)
DropColumns(f, drop) ==
    IF Range(drop.cols) \subseteq f.cols
    THEN [f EXCEPT !.cols = f.cols \ Range(drop.cols), !.nan = f.nan \ Range(drop.cols)]
    ELSE NoFrame

\* data.py:139, 147  frame.dropna along the axis
DropNa(f, how) ==
    CASE how = "drop_row" -> [f EXCEPT !.nan = {}]
      [] how = "drop_column" -> [f EXCEPT !.cols = f.cols \ f.nan, !.nan = {}]
      [] OTHER -> f

\* data.py:163-166, 174-177  the letter case of the data and the columns
Normalize(f, how) ==
    CASE how = "lower" -> [f EXCEPT !.cols = {LowerCol(c) : c \in f.cols},
                                    !.nan = {LowerCol(c) : c \in f.nan}]
      [] how = "upper" -> [f EXCEPT !.cols = {UpperCol(c) : c \in f.cols},
                                    !.nan = {UpperCol(c) : c \in f.nan}]
      [] OTHER -> f

\* data.py:187-200  the extension the format is written with; "none": the
\* format is not supported
ExtensionOf(format) ==
    CASE format = "csv" -> "csv"
      [] format = "parquet" -> "parquet"
      [] OTHER -> "none"

\* data.py:108-118
ProcessRead ==
    /\ stage = "process_data"
    /\ spc = "read"
    /\ IF ~HasFile(dataDir, params.fname)
       THEN /\ Raise("FileNotFoundError")
            /\ printed' = Append(printed, "Processing data...")
            /\ UNCHANGED frame
       ELSE \E f \in ReadCsv(dataDir.files[params.fname]) :
                IF f = NoFrame
                THEN /\ Return("False")
                     /\ printed' = printed \o <<"Processing data...",
                                     "There was an error opening the specified file">>
                     /\ UNCHANGED frame
                ELSE /\ Goto("drop")
                     /\ frame' = f
                     /\ printed' = printed \o <<"Processing data...",
                                     "This dataframe contains observations">>
    /\ UNCHANGED <<static, actions, disk, calls, user, before, downloads>>

\* data.py:120-131
ProcessDrop ==
    /\ stage = "process_data"
    /\ spc = "drop"
    /\ LET a == AssertDropColumns(frame, params.drop_columns)
           dropped == DropColumns(frame, params.drop_columns)
       IN  IF a # "pass"
           THEN /\ Raise(a)
                /\ UNCHANGED <<frame, printed>>
           ELSE IF params.drop_columns.none
           THEN /\ Goto("na")
                /\ UNCHANGED <<frame, printed>>
           ELSE IF dropped = NoFrame
           THEN /\ Return("False")
                /\ Output("There was an error dropping the specified columns from the dataframe")
                /\ UNCHANGED frame
           ELSE /\ Goto("na")
                /\ frame' = dropped
                /\ UNCHANGED printed
    /\ UNCHANGED <<static, actions, disk, calls, user, before, downloads>>

\* data.py:133-155  pandas_raises: the library call ends in an exception
ProcessNa(pandas_raises) ==
    /\ stage = "process_data"
    /\ spc = "na"
    /\ IF params.handle_na \in {"drop_row", "drop_column"}
       THEN IF pandas_raises
            THEN /\ Return("False")
                 /\ Output("There was an error dropping the NaN values")
                 /\ UNCHANGED frame
            ELSE /\ Goto("norm")
                 /\ frame' = DropNa(frame, params.handle_na)
                 /\ UNCHANGED printed
       ELSE /\ ~pandas_raises
            /\ Goto("norm")
            /\ UNCHANGED <<frame, printed>>
    /\ UNCHANGED <<static, actions, disk, calls, user, before, downloads>>

\* data.py:157-184
ProcessNorm(pandas_raises) ==
    /\ stage = "process_data"
    /\ spc = "norm"
    /\ IF params.normalization \in {"lower", "upper"}
       THEN IF pandas_raises
            THEN /\ Return("False")
                 /\ Output("There was an error converting the data")
                 /\ UNCHANGED frame
            ELSE /\ Goto("write")
                 /\ frame' = Normalize(frame, params.normalization)
                 /\ UNCHANGED printed
       ELSE /\ ~pandas_raises
            /\ Goto("write")
            /\ UNCHANGED <<frame, printed>>
    /\ UNCHANGED <<static, actions, disk, calls, user, before, downloads>>

\* data.py:186-202  io_raises: to_csv or to_parquet ends in an exception
ProcessWrite(io_raises) ==
    /\ stage = "process_data"
    /\ spc = "write"
    /\ LET ext == ExtensionOf(params.outfile_format)
       IN  IF ext = "none"
           THEN /\ ~io_raises
                /\ Raise("UnsupportedFileTypeError")
                /\ UNCHANGED dataDir
           ELSE IF io_raises
           THEN /\ Raise("OSError")
                /\ UNCHANGED dataDir
           ELSE /\ Return("True")
                /\ dataDir' = WriteFile(dataDir, ProcessedName(params.fname, ext),
                                        [frame EXCEPT !.kind = ext, !.processed = TRUE])
    /\ UNCHANGED <<static, actions, plotsDir, frame, calls, printed, user, before,
                   downloads>>

\* ---------------------------------------------- plotting.py: plot_data

\* plotting.py:105
SUPPORTED_PLOTS == {"crimes_by_year", "crimes_by_month"}

\* plotting.py:112-113  kwargs.get(name, False)
KwargsGet(kw, name) == IF name \in DOMAIN kw THEN kw[name] ELSE FALSE

Chart(outfile_name) == <<outfile_name, ".", "png">>

\* how drawing one chart may go: all well, the dates cannot be parsed, the
\* counting raises, the export to png raises
PlotOutcomes == {"ok", "dates", "prepare", "export"}

\* plotting.py:164-239  plot_crimes_by_year: its result and whether the
\* chart was written
plot_crimes_by_year(data, how) ==
    IF reported_date \notin data.cols
    THEN [result |-> "AssertionError", written |-> FALSE]
    ELSE CASE how = "dates" -> [result |-> "ValueError", written |-> FALSE]
           [] how = "prepare" -> [result |-> "False", written |-> FALSE]
           [] how = "export" -> [result |-> "False", written |-> FALSE]
           [] OTHER -> [result |-> "True", written |-> TRUE]

\* plotting.py:241-371  plot_crimes_by_month: a failed export is printed and
\* the function returns True all the same
plot_crimes_by_month(data, how) ==
    IF reported_date \notin data.cols
    THEN [result |-> "AssertionError", written |-> FALSE]
    ELSE CASE how = "dates" -> [result |-> "ValueError", written |-> FALSE]
           [] how = "prepare" -> [result |-> "False", written |-> FALSE]
           [] how = "export" -> [result |-> "True", written |-> FALSE]
           [] OTHER -> [result |-> "True", written |-> TRUE]

\* plotting.py:80-84
PlotMkdir ==
    /\ stage = "plot_data"
    /\ spc = "mkdir"
    /\ plotsDir' = MakeDir(plotsDir).dir
    /\ IF MakeDir(plotsDir).next = "prompt"
       THEN /\ Goto("prompt")
            /\ asked' = TRUE
       ELSE /\ Goto("kwargs")
            /\ UNCHANGED asked
    /\ UNCHANGED <<static, actions, dataDir, frame, calls, printed, answer,
                   invalid, before, downloads>>

\* plotting.py:86-101
PlotPrompt(user_input) ==
    /\ stage = "plot_data"
    /\ spc = "prompt"
    /\ CASE validate(user_input) = "True" ->
              /\ answer' = "accept"
              /\ plotsDir' = RemakeDir(plotsDir)
              /\ Goto("kwargs")
              /\ UNCHANGED <<invalid, printed>>
         [] validate(user_input) = "False" ->
              /\ answer' = "reject"
              /\ Raise("SystemExit: User exit")
              /\ UNCHANGED <<plotsDir, invalid, printed>>
         [] OTHER ->
              /\ invalid < MaxInvalid
              /\ invalid' = invalid + 1
              /\ Output("Your input is not valid")
              /\ UNCHANGED <<ctl, plotsDir, answer>>
    /\ UNCHANGED <<static, actions, dataDir, frame, calls, asked, before, downloads>>

\* plotting.py:103-113
PlotKwargs ==
    /\ stage = "plot_data"
    /\ spc = "kwargs"
    /\ IF DOMAIN kwargs \subseteq SUPPORTED_PLOTS
       THEN Goto("read")
       ELSE Raise("UnsupportedPlotError")
    /\ UNCHANGED <<static, actions, disk, frame, calls, printed, user, before,
                   downloads>>

\* plotting.py:123-140  the file plot_data reads: the processed one if it is
\* there, else the downloaded one, else none
PlotInput(dir) ==
    IF HasFile(dir, crime_processed_csv) THEN crime_processed_csv
    ELSE IF HasFile(dir, crime_csv) THEN crime_csv
    ELSE <<>>

PlotRead ==
    /\ stage = "plot_data"
    /\ spc = "read"
    /\ IF PlotInput(dataDir) = <<>>
       THEN /\ Return("False")
            /\ Output("Could not read from either crime_processed.csv or crime.csv")
            /\ UNCHANGED frame
       ELSE \E f \in ReadCsv(dataDir.files[PlotInput(dataDir)]) :
                IF f = NoFrame
                THEN /\ Raise("ParserError")
                     /\ UNCHANGED <<frame, printed>>
                ELSE /\ Goto("year")
                     /\ frame' = f
                     /\ UNCHANGED printed
    /\ UNCHANGED <<static, actions, disk, calls, user, before, downloads>>

\* plotting.py:147-153
PlotYear(how) ==
    /\ stage = "plot_data"
    /\ spc = "year"
    /\ IF KwargsGet(kwargs, "crimes_by_year")
       THEN LET r == plot_crimes_by_year(frame, how)
            IN  /\ plotsDir' = IF r.written
                               THEN WriteFile(plotsDir, Chart("crimes_by_year"), Png)
                               ELSE plotsDir
                /\ CASE r.result = "True" ->
                          /\ Goto("month")
                          /\ UNCHANGED printed
                     [] r.result = "False" ->
                          /\ Return("False")
                          /\ Output("There was an error plotting the number of crimes per year from the data")
                     [] OTHER ->
                          /\ Raise(r.result)
                          /\ UNCHANGED printed
       ELSE /\ how = "ok"
            /\ Goto("month")
            /\ UNCHANGED <<plotsDir, printed>>
    /\ UNCHANGED <<static, actions, dataDir, frame, calls, user, before, downloads>>

\* plotting.py:155-162
PlotMonth(how) ==
    /\ stage = "plot_data"
    /\ spc = "month"
    /\ IF KwargsGet(kwargs, "crimes_by_month")
       THEN LET r == plot_crimes_by_month(frame, how)
            IN  /\ plotsDir' = IF r.written
                               THEN WriteFile(plotsDir, Chart("crimes_by_month"), Png)
                               ELSE plotsDir
                /\ CASE r.result = "True" ->
                          /\ Return("True")
                          /\ UNCHANGED printed
                     [] r.result = "False" ->
                          /\ Return("False")
                          /\ Output("There was an error plotting the number of crimes per months from the data")
                     [] OTHER ->
                          /\ Raise(r.result)
                          /\ UNCHANGED printed
       ELSE /\ how = "ok"
            /\ Return("True")
            /\ UNCHANGED <<plotsDir, printed>>
    /\ UNCHANGED <<static, actions, dataDir, frame, calls, user, before, downloads>>

\* ------------------------------------------------------ specification

Next ==
    \/ RunValidate
    \/ RunLoop
    \/ RunAfterStage
    \/ DirectCall
    \/ DirectReturn
    \/ CollectMkdir
    \/ \E user_input \in UserInputs : CollectPrompt(user_input)
    \/ \E net \in NetOutcomes : CollectDownload(net)
    \/ ProcessRead
    \/ ProcessDrop
    \/ \E pandas_raises \in BOOLEAN : ProcessNa(pandas_raises)
    \/ \E pandas_raises \in BOOLEAN : ProcessNorm(pandas_raises)
    \/ \E io_raises \in BOOLEAN : ProcessWrite(io_raises)
    \/ PlotMkdir
    \/ \E user_input \in UserInputs : PlotPrompt(user_input)
    \/ PlotKwargs
    \/ PlotRead
    \/ \E how \in PlotOutcomes : PlotYear(how)
    \/ \E how \in PlotOutcomes : PlotMonth(how)

Spec == Init /\ [][Next]_vars

\* ------------------------------------------------------------ claims

LastCall == IF calls = <<>> THEN "none" ELSE calls[Len(calls)]
LastOut == IF outs = <<>> THEN "none" ELSE outs[Len(outs)]
StageNames == {"collect_data", "process_data", "plot_data"}

\* the place of a stage in the pipeline collect -> process -> plot
PipelineRank(fn) ==
    CASE fn = "collect_data" -> 1
      [] fn = "process_data" -> 2
      [] fn = "plot_data" -> 3

\* C1: in every run of run.py whose --actions list names two distinct stages
\* among collect, process and plot, the stages are entered in pipeline order,
\* whatever their order on the command line.
C1_PipelineOrder ==
    (/\ entry = "run"
     /\ Len(argv) = 2
     /\ argv[1] # argv[2]
     /\ Range(argv) \subseteq {"collect", "process", "plot"})
        => \A i, j \in DOMAIN calls :
               i < j => PipelineRank(calls[i]) < PipelineRank(calls[j])

\* C2: a run of run.py with `--actions all` that has ended has called each of
\* collect_data, process_data and plot_data.
C2_AllRunsEveryStage ==
    (entry = "run" /\ argv = <<"all">> /\ pc = "done")
        => StageNames \subseteq Range(calls)

\* C3: when plot_data, called the way run.py:82 calls it (no keyword
\* arguments), has returned True, the plots directory holds one chart for each
\* of the five report variants.
C3_FiveChartsWritten ==
    (/\ LastCall = "plot_data"
     /\ kwargs = NoKwargs
     /\ LastOut = "True")
        => \A v \in ReportVariants : HasFile(plotsDir, Chart(v))

\* the lists run.py is to reject
Rejected(a) == Len(a) > 2 \/ (Len(a) = 2 /\ "all" \in Range(a))

\* C4: run.py ends a list of more than two entries, and a two-entry list
\* holding `all`, with ActionArgumentsException before it pops an entry or
\* enters a stage function; with every other list the parser accepts it does not
\* raise that exception and pops at least the first action.
C4_Validation ==
    entry = "run" =>
        IF Rejected(argv)
        THEN /\ calls = <<>>
             /\ actions = argv
             /\ pc \in {"validate", "done"}
             /\ pc = "done" => status = "ActionArgumentsException"
        ELSE /\ status # "ActionArgumentsException"
             /\ pc = "done" => Len(actions) < Len(argv)

C4_Witness ==
    /\ entry = "run"
    /\ Len(argv) = 2
    /\ "all" \in Range(argv)
    /\ pc = "done"
    /\ status = "ActionArgumentsException"

C6_CollectReportsDownload ==
    (entry = "collect_data" /\ LastOut # "none") =>
        /\ LastOut \in {"running", "True", "False", "SystemExit: User exit"}
        /\ LastOut \in {"True", "False"} =>
               (LastOut = "True"
                   <=> /\ HasFile(dataDir, crime_csv)
                       /\ dataDir.files[crime_csv] = Dataset(downloads))

\* C7: process_data, called with a supported outfile_format and no
\* drop_columns, ends by returning True or False and in no exception; it has
\* printed an error message when it returns False, and the processed file is in
\* the data directory when it returns True.
C7_ProcessReportsByFlag ==
    (/\ entry = "process_data"
     /\ params.drop_columns.none
     /\ ExtensionOf(params.outfile_format) # "none"
     /\ LastOut \notin {"none", "running"})
        => /\ LastOut \in {"True", "False", "OSError"}
           /\ LastOut = "False" => Len(printed) > 1
           /\ LastOut = "True" =>
                  /\ HasFile(dataDir, ProcessedName(params.fname, params.outfile_format))
                  /\ dataDir.files[ProcessedName(params.fname, params.outfile_format)].processed

\* the input file name without its extension: all that precedes the last dot
WithoutExtension(fname) ==
    LET parts == Split(fname)
    IN  IF Len(parts) = 1 THEN fname
        ELSE SubSeq(fname, 1, Len(fname) - Len(parts[Len(parts)]) - 1)

\* C8: a call of process_data that got as far as writing: with an
\* outfile_format other than csv and parquet it did not return True and the data
\* directory is as it was; with csv (parquet) it wrote <name>_processed.csv
\* (.parquet), <name> being the input file name without its extension.
C8_OutfileFormat ==
    (/\ entry = "process_data"
     /\ LastOut \in {"True", "UnsupportedFileTypeError"})
        => IF ExtensionOf(params.outfile_format) = "none"
           THEN LastOut = "UnsupportedFileTypeError" /\ dataDir = before
           ELSE /\ LastOut = "True"
                /\ params.outfile_format \in {"csv", "parquet"}
                /\ HasFile(dataDir,
                           WithoutExtension(params.fname)
                               \o <<"_processed", ".", params.outfile_format>>)

\* C9: a call of process_data with a drop_columns list, no NaN handling, no
\* normalization and format csv, that loaded its frame and has ended: when every
\* listed column is in the loaded frame it returned True and the columns written
\* are the input's minus the listed ones (or the write itself failed); when a
\* listed column is missing it ended with AssertionError.
C9_DropColumns ==
    (/\ entry = "process_data"
     /\ ~params.drop_columns.none
     /\ params.handle_na = "None"
     /\ params.normalization = "None"
     /\ params.outfile_format = "csv"
     /\ frame # NoFrame
     /\ LastOut # "running")
        => IF Range(params.drop_columns.cols) \subseteq before.files[params.fname].cols
           THEN /\ LastOut \in {"True", "OSError"}
                /\ LastOut = "True" =>
                       dataDir.files[ProcessedName(params.fname, "csv")].cols
                           = before.files[params.fname].cols
                                 \ Range(params.drop_columns.cols)
           ELSE LastOut = "AssertionError"

\* C10: in collect_data and in plot_data: the user is asked exactly when the
\* target directory existed on entry; past the directory step the directory is
\* there, and it is empty when the stage goes on to its next step (created, or
\* removed with its contents and recreated on accept); the stage goes on past an
\* existing directory only on accept; on reject the program has ended with
\* `User exit`, the directory is as it was and the stage did nothing further.
C10_DirectoryPrompt ==
    LastCall \in {"collect_data", "plot_data"} =>
        LET dir == TargetDir(LastCall)
            running == stage = LastCall /\ LastOut = "running"
        IN  /\ ~(running /\ spc = "mkdir") => (asked <=> before.exists)
            /\ (running /\ spc \notin {"mkdir", "prompt"}) =>
                   /\ dir.exists
                   /\ before.exists => answer = "accept"
            /\ (running /\ spc \in {"download", "kwargs"}) => dir = EmptyDir
            /\ answer # "none" => asked
            /\ answer = "reject" =>
                   /\ status = "SystemExit: User exit"
                   /\ LastOut = "SystemExit: User exit"
                   /\ pc = "done"
                   /\ stage = "none"
                   /\ dir = before

C10_Witness ==
    /\ LastCall = "plot_data"
    /\ stage = "plot_data"
    /\ spc = "kwargs"
    /\ answer = "accept"
    /\ before.files # NoFiles
    /\ plotsDir = EmptyDir

\* C13: when a run of run.py with the two actions collect and process, in
\* either order, has ended normally with both stage functions returning True,
\* the data directory holds the crime.csv of this run's download and a
\* crime_processed.csv made from that same download.
C13_ProcessedFromThisDownload ==
    (/\ entry = "run"
     /\ Len(argv) = 2
     /\ Range(argv) = {"collect", "process"}
     /\ pc = "done"
     /\ status = "ok"
     /\ outs = <<"True", "True">>)
        => /\ HasFile(dataDir, crime_csv)
           /\ dataDir.files[crime_csv].gen = downloads
           /\ downloads > 0
           /\ HasFile(dataDir, crime_processed_csv)
           /\ dataDir.files[crime_processed_csv].processed
           /\ dataDir.files[crime_processed_csv].gen = downloads

\* ------------------- plotting.py, plotting_utils.py: the chart data
\*
\* The chart functions plot_crimes_by_month, _type, _season and _neighborhood
\* called on a dataframe of their own, up to the data they hand to the
\* figure.  The dataframe has the columns each function asserts and reads.

\* most records in the dataframe
MaxRecords == 3

\* the years and the months of the reported dates tried
Years == {2022, 2023}
MonthsTried == {1, 3, 12}
\* neighborhood and crime type names: texts over the letters 1 < 2
Names == {<<1>>, <<1, 2>>, <<2>>}

\* A record: year and month of reported_date (0: the date is missing, NaT),
\* and the value of the category column the variant reads (<<>>: missing).
Rec(y, m, n) == [year |-> y, month |-> m, name |-> n]
NoDate == 0
NoName == <<>>

\* the records tried with a variant: dates for the month and season charts,
\* years and names for the type and neighborhood charts
RecordsFor(v) ==
    IF v \in {"month", "season"}
    THEN {Rec(y, m, NoName) : y \in Years, m \in MonthsTried} \cup {Rec(NoDate, NoDate, NoName)}
    ELSE {Rec(y, 1, n) : y \in Years, n \in Names \cup {NoName}}
            \cup {Rec(NoDate, NoDate, n) : n \in Names \cup {NoName}}

\* the ordering arguments tried: the values the function matches, and its
\* default (a list, which matches no case)
OrdersFor(v) ==
    CASE v = "month" -> {"count_order", "year_order", "default"}
      [] v = "season" -> {"year", "frequency", "default"}
      [] v = "neighborhood" -> {"frequency", "alphabetical", "default"}
      [] OTHER -> {"none"}

\* str() of a number: its digits, and ".0" when it is a float; the float nan
\* (digits NoDate) gives "nan"
Str(n, float) == [digits |-> n, float |-> float]

\* plotting.py:270-283
MonthNames ==
    <<"jan", "feb", "mar", "apr", "may", "jun", "jul", "aug", "sep", "oct", "nov", "dec">>
MONTHS_MAP == [k \in {Str(m, FALSE) : m \in 1..12} |-> MonthNames[k.digits]]

\* plotting_utils.py:358-371
MONTH_TO_SEASON ==
    [m \in 1..12 |->
        IF m \in {12, 1, 2} THEN "winter"
        ELSE IF m \in 3..5 THEN "spring"
        ELSE IF m \in 6..8 THEN "summer"
        ELSE "fall"]

\* plotting_utils.py:382
SeasonNames == <<"winter", "spring", "summer", "fall">>

\* a missing date: pd.to_datetime gives NaT, whose year and month are nan,
\* and the year column turns to floats
HasNaT(recs) == \E i \in DOMAIN recs : recs[i].year = NoDate

\* the category column the variant counts: crime_month (plotting.py:284-285),
\* reported_season (plotting_utils.py:373), offense_category_id,
\* neighborhood_id
CategoryOf(r, v) ==
    CASE v = "month" -> MONTHS_MAP[Str(r.month, FALSE)]
      [] v = "season" -> MONTH_TO_SEASON[r.month]
      [] OTHER -> r.name

\* value_counts() leaves missing values out
Counted(r, v) == v \in {"month", "season"} \/ r.name # NoName

\* number of records of recs with category c
CountOf(recs, v, c) ==
    Cardinality({i \in DOMAIN recs : Counted(recs[i], v) /\ CategoryOf(recs[i], v) = c})

\* Series.value_counts().to_dict(): each category with its count
ValueCounts(recs, v) ==
    LET keys == {CategoryOf(recs[i], v) : i \in {j \in DOMAIN recs : Counted(recs[j], v)}}
    IN  [c \in keys |-> CountOf(recs, v, c)]

\* the orders of the dict's keys: by falling count, equal counts either way
KeyOrders(cnt) ==
    {l \in ListsOver(DOMAIN cnt, Cardinality(DOMAIN cnt)) :
        /\ Len(l) = Cardinality(DOMAIN cnt)
        /\ Range(l) = DOMAIN cnt
        /\ \A i, j \in DOMAIN l : i < j => cnt[l[i]] >= cnt[l[j]]}

\* a faulty variant of SortedByCount: the dict's own order is kept
SortedByCountUnsorted(keys, cnt) == keys

\* sorted(d, key=lambda x: d[x]): Python's stable sort, by rising count
RECURSIVE SortedByCount(_, _)
SortedByCount(keys, cnt) ==
    IF keys = <<>> THEN <<>>
    ELSE LET front == SortedByCount(SubSeq(keys, 1, Len(keys) - 1), cnt)
             x == keys[Len(keys)]
             k == Cardinality({i \in DOMAIN front : cnt[front[i]] <= cnt[x]})
         IN  SubSeq(front, 1, k) \o <<x>> \o SubSeq(front, k + 1, Len(front))

\* Python's order of two texts
RECURSIVE LexLess(_, _)
LexLess(a, b) ==
    IF b = <<>> THEN FALSE
    ELSE IF a = <<>> THEN TRUE
    ELSE IF Head(a) # Head(b) THEN Head(a) < Head(b)
    ELSE LexLess(Tail(a), Tail(b))

\* sorted(list(d.keys())): by rising name
RECURSIVE SortedNames(_)
SortedNames(keys) ==
    IF keys = <<>> THEN <<>>
    ELSE LET front == SortedNames(SubSeq(keys, 1, Len(keys) - 1))
             x == keys[Len(keys)]
             k == Cardinality({i \in DOMAIN front : ~LexLess(x, front[i])})
         IN  SubSeq(front, 1, k) \o <<x>> \o SubSeq(front, k + 1, Len(front))

\* plotting.py:293-301, plotting_utils.py:252, 378-390, 485-497  the ordered
\* category list; <<"unbound">>: no case matched and the name stays unbound
Unbound == <<"unbound">>
OrderedCategories(v, ord, keys, cnt) ==
    CASE v = "month" /\ ord = "count_order" -> SortedByCount(keys, cnt)
      [] v = "month" /\ ord = "year_order" -> MonthNames
      [] v = "type" -> SortedByCount(keys, cnt)
      [] v = "season" /\ ord = "year" -> SeasonNames
      [] v = "season" /\ ord = "frequency" -> SortedByCount(keys, cnt)
      [] v = "neighborhood" /\ ord = "frequency" -> SortedByCount(keys, cnt)
      [] v = "neighborhood" /\ ord = "alphabetical" -> SortedNames(keys)
      [] OTHER -> Unbound

\* data.query("<year column> == @year")[<category column>].value_counts():
\* nan equals no year, itself included
YearCounts(recs, v, y) ==
    ValueCounts(SelectSeq(recs, LAMBDA r : y # NoDate /\ r.year = y), v)

\* plotting.py:310-321, plotting_utils.py:264-278, 400-413, 506-518  one
\* series for each value of the year column
ForPlot(recs, v, cats) ==
    LET float == HasNaT(recs)
        years == {recs[i].year : i \in DOMAIN recs}
        YearOf(k) == CHOOSE y \in years : Str(y, float) = k
    IN  [k \in {Str(y, float) : y \in years} |->
            [i \in DOMAIN cats |->
                LET yc == YearCounts(recs, v, YearOf(k))
                IN  IF cats[i] \in DOMAIN yc THEN yc[cats[i]] ELSE 0]]

\* ------------------- plotting.py, plotting_utils.py: the chart functions
\*
\* One call of a chart function: cpc is its position (dates, order, pivot,
\* built, ended), cresult what the call gave when it ended before the figure:
\* "False" or the exception that left it.

\* what no step of a chart function changes
program == <<entry, argv, params, kwargs, actions, pc, status, stage, spc, ret,
             dataDir, plotsDir, frame, calls, outs, asked, answer, invalid,
             before, downloads>>

ChartVariants == {"month", "type", "season", "neighborhood"}

\* the chart ends before the figure, with result r
ChartEnds(r) ==
    /\ cpc' = "ended"
    /\ cresult' = r
    /\ UNCHANGED <<ordered, for_plot>>

ProcessingError == "There was an error processing the data prior to plotting"

\* a chart function is called on a dataframe
PlotInit ==
    /\ entry = "chart"
    /\ argv = <<>>
    /\ params = DefaultArgs
    /\ kwargs = NoKwargs
    /\ dataDir = NoDir
    /\ plotsDir = EmptyDir
    /\ actions = <<>>
    /\ pc = "call"
    /\ status = "running"
    /\ stage = "none"
    /\ spc = "none"
    /\ ret = "none"
    /\ frame = NoFrame
    /\ calls = <<>>
    /\ outs = <<>>
    /\ printed = <<>>
    /\ asked = FALSE
    /\ answer = "none"
    /\ invalid = 0
    /\ before = NoDir
    /\ downloads = 0
    /\ variant \in ChartVariants
    /\ order \in OrdersFor(variant)
    /\ records \in ListsOver(RecordsFor(variant), MaxRecords)
    /\ cpc = "dates"
    /\ ordered = <<>>
    /\ for_plot = <<>>
    /\ cresult = "none"

\* plotting.py:254-289, plotting_utils.py:243-247, 343-373, 477-478  the dates
\* are parsed and the year, month and season columns made.  The month chart
\* raises NanException, which no "except Exception" catches, on a missing
\* year; the season chart looks nan up in MONTH_TO_SEASON, and the KeyError is
\* caught; the type and neighborhood charts go on.
ChartDates ==
    /\ cpc = "dates"
    /\ IF variant = "month" /\ HasNaT(records)
       THEN ChartEnds("NanException") /\ UNCHANGED printed
       ELSE IF variant = "season" /\ HasNaT(records)
       THEN ChartEnds("False") /\ Output(ProcessingError)
       ELSE /\ cpc' = "order"
            /\ UNCHANGED <<ordered, for_plot, cresult, printed>>
    /\ UNCHANGED <<program, variant, order, records>>

\* plotting.py:291-306, plotting_utils.py:250-258, 377-398, 483-502  the
\* categories are counted and ordered; keys is the order of the dict of
\* counts.  An ordering argument that matches no case leaves the list
\* unbound: the UnboundLocalError is caught in the month and season charts,
\* and leaves the neighborhood chart, which orders outside its try.
ChartOrder ==
    /\ cpc = "order"
    /\ LET cnt == ValueCounts(records, variant)
       IN  \E keys \in KeyOrders(cnt) :
             LET cats == OrderedCategories(variant, order, keys, cnt)
             IN  IF cats # Unbound
                 THEN /\ ordered' = cats
                      /\ cpc' = "pivot"
                      /\ UNCHANGED <<for_plot, cresult, printed>>
                 ELSE IF variant = "neighborhood"
                 THEN ChartEnds("UnboundLocalError") /\ UNCHANGED printed
                 ELSE ChartEnds("False") /\ Output(ProcessingError)
    /\ UNCHANGED <<program, variant, order, records>>

\* plotting.py:310-321, plotting_utils.py:262-276, 400-414, 506-518  the
\* counts of each year are laid out along the ordered categories
ChartPivot ==
    /\ cpc = "pivot"
    /\ for_plot' = ForPlot(records, variant, ordered)
    /\ cpc' = "built"
    /\ UNCHANGED <<program, variant, order, records, ordered, cresult, printed>>

PlotNext ==
    \/ ChartDates
    \/ ChartOrder
    \/ ChartPivot

PlotSpec == PlotInit /\ [][PlotNext]_vars

\* ------------------------------------------------- the chart claims

\* the categories that occur in the data, and the total count of one
Occurring ==
    {CategoryOf(records[i], variant) : i \in {j \in DOMAIN records : Counted(records[j], variant)}}
TotalCount(c) == CountOf(records, variant, c)

\* the ordering policy the call asks for
Policy ==
    CASE variant = "type" -> "frequency"
      [] order \in {"count_order", "frequency"} -> "frequency"
      [] order \in {"year_order", "year"} -> "calendar"
      [] order = "alphabetical" -> "alphabetical"
      [] OTHER -> "none"

ListBuilt == cpc \in {"pivot", "built"}

NoCategoryTwice(l) == \A i, j \in DOMAIN l : i # j => l[i] # l[j]

\* C12: once the ordered category list is built: under frequency order it
\* holds exactly the categories occurring in the data, by non-decreasing
\* total count; under calendar order it is jan..dec (seasons: winter, spring,
\* summer, fall) whatever occurs; under alphabetical order it holds the
\* occurring neighborhoods by ascending name; and it never holds a category
\* twice.
C12_OrderingPolicies ==
    ListBuilt =>
        /\ Policy = "frequency" =>
              /\ Range(ordered) = Occurring
              /\ \A i, j \in DOMAIN ordered :
                    i < j => TotalCount(ordered[i]) <= TotalCount(ordered[j])
        /\ Policy = "calendar" =>
              ordered = IF variant = "month"
                        THEN <<"jan", "feb", "mar", "apr", "may", "jun",
                               "jul", "aug", "sep", "oct", "nov", "dec">>
                        ELSE <<"winter", "spring", "summer", "fall">>
        /\ Policy = "alphabetical" =>
              /\ Range(ordered) = Occurring
              /\ \A i, j \in DOMAIN ordered : i < j => LexLess(ordered[i], ordered[j])
        /\ NoCategoryTwice(ordered)

\* a neighborhood chart in frequency order whose list starts with a
\* neighborhood that has fewer records than the next one
C12_Witness ==
    /\ cpc = "built"
    /\ variant = "neighborhood"
    /\ order = "frequency"
    /\ Len(ordered) >= 2
    /\ TotalCount(ordered[1]) < TotalCount(ordered[2])

\* the distinct years in the data
YearsInData == {records[i].year : i \in DOMAIN records} \ {NoDate}

\* number of records of year y with category c
CountIn(y, c) ==
    Cardinality({i \in DOMAIN records :
        /\ records[i].year = y
        /\ Counted(records[i], variant)
        /\ CategoryOf(records[i], variant) = c})

\* entry i of the series, summed over the series ks
RECURSIVE SumAt(_, _)
SumAt(ks, i) ==
    IF ks = {} THEN 0
    ELSE LET k == CHOOSE x \in ks : TRUE
         IN  for_plot[k][i] + SumAt(ks \ {k}, i)

\* C11: once the data for the stacked chart is built, it has one series per
\* distinct year in the data, each as long as the ordered category list;
\* entry i of year y's series is the number of records of year y in category
\* i; and for every category occurring in the data the entries summed over
\* all series equal the category's total count.
C11_YearSeries ==
    cpc = "built" =>
        /\ Cardinality(DOMAIN for_plot) = Cardinality(YearsInData)
        /\ \A y \in YearsInData : \E k \in DOMAIN for_plot : k.digits = y
        /\ \A k \in DOMAIN for_plot :
              /\ Len(for_plot[k]) = Len(ordered)
              /\ \A i \in DOMAIN ordered : for_plot[k][i] = CountIn(k.digits, ordered[i])
        /\ \A i \in DOMAIN ordered :
              ordered[i] \in Occurring => SumAt(DOMAIN for_plot, i) = TotalCount(ordered[i])

=============================================================================
